---- MODULE Spec2Model ----
(***************************************************************************)
(* goback: rsync snapshot publisher and tiered retention (src/main.go).    *)
(*                                                                         *)
(* The destination directory is modelled as the set of its non-hidden      *)
(* directory entries (snaps) plus the staging directory .unfinished.       *)
(* One invocation of main is a walk of pc through readConfig, runBackup    *)
(* and purgeBackups; every filesystem call or subprocess event is one      *)
(* step, the process may be killed between any two of them.                *)
(***************************************************************************)
EXTENDS Integers, Sequences, FiniteSets, TLC

\* ------------------------------------------------------------------ bounds
MaxRuns == 2        \* invocations of main in one behaviour
MaxKeep == 2        \* largest count of a retention tier
MaxSnaps == 3       \* largest listing drawn for a purge pass
TicksPerDay == 2    \* clock resolution: timestamps are ticks, a day is this many

\* ------------------------------------------------------------------ calendar
\* Day 0 is Monday 2024-01-01; a timestamp t lies on day t \div TicksPerDay.
IsLeap(y) == (y % 4 = 0 /\ y % 100 # 0) \/ y % 400 = 0

DaysInYear(y) == IF IsLeap(y) THEN 366 ELSE 365

DaysInMonth(y, m) ==
    IF m = 2 THEN (IF IsLeap(y) THEN 29 ELSE 28)
    ELSE IF m \in {4, 6, 9, 11} THEN 30 ELSE 31

\* <<year, day of the year (0-based)>> of the d-th day counted from 1 January of y
RECURSIVE YearDay(_, _)
YearDay(y, d) ==
    IF d < DaysInYear(y) THEN <<y, d>> ELSE YearDay(y + 1, d - DaysInYear(y))

\* month (1..12) holding the day d (0-based) of year y, searched from month m
RECURSIVE MonthOf(_, _, _)
MonthOf(y, m, d) ==
    IF d < DaysInMonth(y, m) THEN m ELSE MonthOf(y, m + 1, d - DaysInMonth(y, m))

DayOf(t) == t \div TicksPerDay

\* time.Time.Date(): <<year, month>> of a timestamp
Date(t) ==
    LET yd == YearDay(2024, DayOf(t))
    IN  <<yd[1], MonthOf(yd[1], 1, yd[2])>>

\* time.Time.ISOWeek(): the year and week of the Thursday of the timestamp's week
ISOWeek(t) ==
    LET day == DayOf(t)
        thursday == day - (day % 7) + 3
        yd == YearDay(2024, thursday)
    IN  <<yd[1], (yd[2] \div 7) + 1>>

\* faulty variant of week_key: the calendar year in place of the ISO year
week_keyCalendarYear(t) == Date(t)[1] * 100 + ISOWeek(t)[2]

week_key(t) == LET w == ISOWeek(t) IN w[1] * 100 + w[2]

month_key(t) == LET d == Date(t) IN d[1] * 100 + d[2]

\* ------------------------------------------------------------------ names
\* A directory name is <prefix>_<timestamp>; the prefix is a string of characters.
Prefixes == { <<"s">>, <<".", "h">> }

SnapshotName(prefix, t) == [prefix |-> prefix, stamp |-> t]

\* the characters of a name up to and including the separator
NameChars(n) == n.prefix \o <<"_">>

\* strings.HasPrefix(name, ".")
HasDotPrefix(n) == NameChars(n)[1] = "."

\* the empty string returned by getLatestSnapshot when there is no snapshot
NoName == [prefix |-> <<>>, stamp |-> -1]

\* the name of the staging directory, ".unfinished"
UnfinishedName == [prefix |-> <<".", "unfinished">>, stamp |-> -1]

\* ------------------------------------------------------------------ inputs
\* rsync_extra_flags, given as the fields strings.Split(s, " ") yields; <<>> is ""
ExtraFlags == { <<>>, <<"--compress", "-n">> }

\* exit codes of the copy subprocess: success, a generic error, vanished files
ExitCodes == {0, 1, 24}

\* keep policies of the configurations a whole invocation is run with
Policies == { <<0, 0, 0>>, <<1, 1, 1>>, <<MaxKeep, 0, 0>> }

\* amounts the wall clock moves between two invocations
ClockSteps == {0, 1, 31 * TicksPerDay}

Configs ==
    [ ignoreVanished : BOOLEAN, prefix : Prefixes, extra : ExtraFlags,
      daily : 0..MaxKeep, weekly : 0..MaxKeep, monthly : 0..MaxKeep ]

\* ------------------------------------------------------------------ state
VARIABLES
    now,            \* wall clock, in ticks
    run,            \* number of invocations started so far; the id of the current one
    pc,             \* position of the process; "idle" when none is running
    dryRun,         \* the -dry-run flag of the current invocation
    config,         \* the parsed configuration file
    destExists,     \* whether the destination directory exists
    snaps,          \* directories under the destination, .unfinished excepted; of each:
                    \* name, mtime, whether it holds rsync.log, the runs whose subprocess
                    \* wrote into it (writers), the status the copy into it ended with
                    \* (code), the exit code seen before the rename (exit), the run
                    \* that renamed it (by, 0 for a directory found at the start)
    unfinished,     \* the staging directory .unfinished
    snapshotName,   \* runBackup: name the staging directory is to be renamed to
    latestSnapshot, \* runBackup: result of getLatestSnapshot
    args,           \* runBackup: argument list of the subprocess
    cmd,            \* runBackup: state and exit code of the subprocess
    readDirErr,     \* getSnapshots: what the last os.ReadDir of this process returned:
                    \* "nil", "notExist" or "other"; "none" before the first call
    backupErr,      \* what runBackup returned: "pending", "nil" or the failed step
    purgeErr,       \* what purgeBackups returned: "pending", "nil" or "list"
    exit,           \* how the invocation ended: "none", "0", "1" or "killed"
    snapshots,      \* purgeBackups: the listing, newest first
    to_keep,        \* purgeBackups: names selected by the three tiers
    idx,            \* purgeBackups: position of the deletion loop
    reported,       \* purgeBackups: names logged as "would purge" in a dry run
    failed,         \* purgeBackups: names logged as "failed to purge"
    snaps0,         \* history: snaps when the current invocation started
    stale0,         \* history: unfinished when the current invocation started
    firstPurge,     \* history: listing and keep set of the first purge pass since
                    \* the last rename
    prevPass        \* history: listing and keep set of the purge pass the invocation
                    \* before the current one returned from

vars == << now, run, pc, dryRun, config, destExists, snaps, unfinished, snapshotName,
           latestSnapshot, args, cmd, readDirErr, backupErr, purgeErr, exit, snapshots,
           to_keep, idx, reported, failed, snaps0, stale0, firstPurge,
           prevPass >>

fsVars == << snaps, unfinished >>

backupLocals == << snapshotName, latestSnapshot, args, cmd >>

purgeLocals == << snapshots, to_keep, idx, reported, failed >>

\* the staging directory when it does not exist
Absent == [exists |-> FALSE, mtime |-> 0, log |-> FALSE, writers |-> {}, code |-> -1]

\* os.MkdirAll on a missing path: an empty directory, modified now
FreshDir(t) == [exists |-> TRUE, mtime |-> t, log |-> FALSE, writers |-> {}, code |-> -1]

NoCmd == [state |-> "none", code |-> -1]

NoPurge == [valid |-> FALSE, listing |-> {}, keep |-> {}]

NoPass == [snapshots |-> <<>>, to_keep |-> {}]

\* ------------------------------------------------------------------ listing
\* os.FileInfo of a directory entry: what getSnapshots hands on
FileInfo(d) == [name |-> d.name, mtime |-> d.mtime]

\* faulty variant of Visible: names with a leading dot are listed too
VisibleAll(dirs) == { FileInfo(d) : d \in dirs }

\* the entries getSnapshots appends: directories whose name has no leading dot
Visible(dirs) == { FileInfo(d) : d \in { e \in dirs : ~HasDotPrefix(e.name) } }

\* sort.Slice by ModTime().Before: every ascending arrangement of S; the sort
\* is not stable, so entries with equal times may come out in any order
RECURSIVE SortedSeqs(_)
SortedSeqs(S) ==
    IF S = {} THEN { <<>> }
    ELSE LET firsts == { x \in S : \A y \in S : ~(y.mtime < x.mtime) }
         IN  UNION { { <<x>> \o rest : rest \in SortedSeqs(S \ {x}) } : x \in firsts }

\* getSnapshots(dest) when the directory can be read: the possible results
getSnapshots(dirs) == SortedSeqs(Visible(dirs))

\* the staging directory as an entry of the destination
StagingEntry(dir) == [name |-> UnfinishedName, mtime |-> dir.mtime, log |-> dir.log,
                      writers |-> dir.writers, code |-> dir.code, exit |-> -1, by |-> 0]

\* os.ReadDir(dest) when it succeeds: the published directories and, when it
\* exists, the staging directory
ReadDir(dirs, staging) == dirs \cup (IF staging.exists THEN {StagingEntry(staging)} ELSE {})

\* what os.ReadDir returns when no other failure strikes
ReadDirErr(exists) == IF exists THEN "nil" ELSE "notExist"

\* faulty variant of getSnapshotsErr: a missing destination is reported as an error
getSnapshotsErrStrict(err) == err

\* the error getSnapshots returns for the result err of os.ReadDir: a destination
\* that does not exist gives (nil, nil)
getSnapshotsErr(err) == IF err = "notExist" THEN "nil" ELSE err

\* the listings getSnapshots can return without an error
DestListing(exists, dirs, staging) ==
    IF exists THEN getSnapshots(ReadDir(dirs, staging)) ELSE { <<>> }

\* faulty variant of Reverse: the listing stays oldest first
ReverseSkipped(q) == q

\* the in-place reversal loop of purgeBackups
Reverse(q) == [ i \in 1..Len(q) |-> q[Len(q) + 1 - i] ]

\* getLatestSnapshot on a listing: the name of the last element, "" when empty
getLatestSnapshot(list) == IF Len(list) = 0 THEN NoName ELSE list[Len(list)].name

\* ------------------------------------------------------------------ keep set
\* faulty variant of DailyLoop: a slot is used only by the first snapshot of a
\* calendar day, later snapshots of that day are passed over
RECURSIVE DailyLoopByDay(_, _, _, _, _)
DailyLoopByDay(list, i, daily_kept_count, keep, daily) ==
    IF i > Len(list) \/ daily_kept_count >= daily THEN keep
    ELSE IF \A j \in 1..(i - 1) : DayOf(list[j].mtime) # DayOf(list[i].mtime)
         THEN DailyLoopByDay(list, i + 1, daily_kept_count + 1, keep \cup {list[i].name},
                             daily)
         ELSE DailyLoopByDay(list, i + 1, daily_kept_count, keep, daily)

\* the daily loop: to_keep after visiting list[i..], count snapshots kept so far
RECURSIVE DailyLoop(_, _, _, _, _)
DailyLoop(list, i, daily_kept_count, keep, daily) ==
    IF i > Len(list) \/ daily_kept_count >= daily THEN keep
    ELSE IF list[i].name \notin keep
         THEN DailyLoop(list, i + 1, daily_kept_count + 1, keep \cup {list[i].name}, daily)
         ELSE DailyLoop(list, i + 1, daily_kept_count, keep, daily)

\* faulty variant of WeeklyLoop: the counter also moves for a week whose newest
\* snapshot was kept before
RECURSIVE WeeklyLoopCountsKept(_, _, _, _, _, _)
WeeklyLoopCountsKept(list, i, weekly_kept_count, weeks_seen, keep, weekly) ==
    IF i > Len(list) \/ weekly_kept_count >= weekly THEN keep
    ELSE LET s == list[i]
             key == week_key(s.mtime)
         IN  IF key \notin weeks_seen
             THEN WeeklyLoopCountsKept(list, i + 1, weekly_kept_count + 1,
                                       weeks_seen \cup {key}, keep \cup {s.name}, weekly)
             ELSE WeeklyLoopCountsKept(list, i + 1, weekly_kept_count, weeks_seen, keep,
                                       weekly)

\* faulty variant of WeeklyLoop: a week is marked as seen only when its snapshot
\* is added by this tier
RECURSIVE WeeklyLoopMarksKept(_, _, _, _, _, _)
WeeklyLoopMarksKept(list, i, weekly_kept_count, weeks_seen, keep, weekly) ==
    IF i > Len(list) \/ weekly_kept_count >= weekly THEN keep
    ELSE LET s == list[i]
             key == week_key(s.mtime)
         IN  IF key \notin weeks_seen /\ s.name \notin keep
             THEN WeeklyLoopMarksKept(list, i + 1, weekly_kept_count + 1,
                                      weeks_seen \cup {key}, keep \cup {s.name}, weekly)
             ELSE WeeklyLoopMarksKept(list, i + 1, weekly_kept_count, weeks_seen, keep,
                                      weekly)

\* the weekly loop: weeks_seen is marked for the first snapshot of every week met,
\* the counter moves only when that snapshot was not kept before
RECURSIVE WeeklyLoop(_, _, _, _, _, _)
WeeklyLoop(list, i, weekly_kept_count, weeks_seen, keep, weekly) ==
    IF i > Len(list) \/ weekly_kept_count >= weekly THEN keep
    ELSE LET s == list[i]
             key == week_key(s.mtime)
         IN  IF key \notin weeks_seen
             THEN IF s.name \notin keep
                  THEN WeeklyLoop(list, i + 1, weekly_kept_count + 1,
                                  weeks_seen \cup {key}, keep \cup {s.name}, weekly)
                  ELSE WeeklyLoop(list, i + 1, weekly_kept_count,
                                  weeks_seen \cup {key}, keep, weekly)
             ELSE WeeklyLoop(list, i + 1, weekly_kept_count, weeks_seen, keep, weekly)

\* faulty variant of MonthlyLoop: months_seen is not consulted, every snapshot not
\* kept so far takes a slot
RECURSIVE MonthlyLoopNoSeen(_, _, _, _, _, _)
MonthlyLoopNoSeen(list, i, monthly_kept_count, months_seen, keep, monthly) ==
    IF i > Len(list) \/ monthly_kept_count >= monthly THEN keep
    ELSE IF list[i].name \notin keep
         THEN MonthlyLoopNoSeen(list, i + 1, monthly_kept_count + 1, months_seen,
                                keep \cup {list[i].name}, monthly)
         ELSE MonthlyLoopNoSeen(list, i + 1, monthly_kept_count, months_seen, keep,
                                monthly)

\* faulty variant of MonthlyLoop: the counter also moves for a month whose newest
\* snapshot was kept before
RECURSIVE MonthlyLoopCountsAll(_, _, _, _, _, _)
MonthlyLoopCountsAll(list, i, monthly_kept_count, months_seen, keep, monthly) ==
    IF i > Len(list) \/ monthly_kept_count >= monthly THEN keep
    ELSE LET s == list[i]
             key == month_key(s.mtime)
         IN  IF key \notin months_seen
             THEN MonthlyLoopCountsAll(list, i + 1, monthly_kept_count + 1,
                                       months_seen \cup {key}, keep \cup {s.name}, monthly)
             ELSE MonthlyLoopCountsAll(list, i + 1, monthly_kept_count, months_seen, keep,
                                       monthly)

\* the monthly loop, the same walk with the (year, month) key
RECURSIVE MonthlyLoop(_, _, _, _, _, _)
MonthlyLoop(list, i, monthly_kept_count, months_seen, keep, monthly) ==
    IF i > Len(list) \/ monthly_kept_count >= monthly THEN keep
    ELSE LET s == list[i]
             key == month_key(s.mtime)
         IN  IF key \notin months_seen
             THEN IF s.name \notin keep
                  THEN MonthlyLoop(list, i + 1, monthly_kept_count + 1,
                                   months_seen \cup {key}, keep \cup {s.name}, monthly)
                  ELSE MonthlyLoop(list, i + 1, monthly_kept_count,
                                   months_seen \cup {key}, keep, monthly)
             ELSE MonthlyLoop(list, i + 1, monthly_kept_count, months_seen, keep, monthly)

\* faulty variant of KeepSet: a snapshot older than 30 days at the time of the
\* evaluation is never kept
KeepSetByAge(list, cfg) ==
    LET d == DailyLoop(list, 1, 0, {}, cfg.daily)
        w == WeeklyLoop(list, 1, 0, {}, d, cfg.weekly)
        young == { list[i].name :
                     i \in { j \in 1..Len(list) : now - list[j].mtime <= 30 * TicksPerDay } }
    IN  MonthlyLoop(list, 1, 0, {}, w, cfg.monthly) \cap young

\* faulty variant of KeepSet: the newest snapshot is kept whatever the policy
KeepSetNewestAlways(list, cfg) ==
    LET d == DailyLoop(list, 1, 0, {}, cfg.daily)
        w == WeeklyLoop(list, 1, 0, {}, d, cfg.weekly)
    IN  MonthlyLoop(list, 1, 0, {}, w, cfg.monthly)
            \cup (IF Len(list) = 0 THEN {} ELSE {list[1].name})

\* to_keep as purgeBackups builds it from the listing (newest first) and the policy
KeepSet(list, cfg) ==
    LET d == DailyLoop(list, 1, 0, {}, cfg.daily)
        w == WeeklyLoop(list, 1, 0, {}, d, cfg.weekly)
    IN  MonthlyLoop(list, 1, 0, {}, w, cfg.monthly)

\* ------------------------------------------------------------------ age-threshold variant
\* The earlier purgeBackups (src/unnamed/part_000) selects by age, not by calendar
\* bucket; its listing is walked as getSnapshots returns it, oldest first.

\* int(x) of a quotient: rounded towards zero
TruncDiv(a, b) == IF a >= 0 THEN a \div b ELSE -((-a) \div b)

\* ageInDays(fi) evaluated at time t: whole days since the modification time
ageInDays(mtime, t) == TruncDiv(t - mtime, TicksPerDay)

\* faulty variant of AgeInterval: the monthly count widens the 7-day range
AgeIntervalMonthly(age, cfg) ==
    IF age <= cfg.daily THEN 0
    ELSE IF age <= cfg.daily + cfg.weekly * 7 + cfg.monthly * 30 THEN 7
    ELSE 30

\* the spacing asked of a snapshot of that age: 0 stands for "keep all"
AgeInterval(age, cfg) ==
    IF age <= cfg.daily THEN 0
    ELSE IF age <= cfg.daily + cfg.weekly * 7 THEN 7
    ELSE 30

\* the selection loop, from position i down to the oldest snapshot: to_keep after
\* visiting list[1..i], last_kept the snapshot kept last
RECURSIVE AgeLoop(_, _, _, _, _, _)
AgeLoop(list, i, last_kept, keep, cfg, t) ==
    IF i < 1 THEN keep
    ELSE LET s == list[i]
             age == ageInDays(s.mtime, t)
             interval == AgeInterval(age, cfg)
             age_diff == ageInDays(s.mtime, t) - ageInDays(last_kept.mtime, t)
         IN  IF interval = 0 \/ age_diff >= interval
             THEN AgeLoop(list, i - 1, s, keep \cup {s.name}, cfg, t)
             ELSE AgeLoop(list, i - 1, last_kept, keep, cfg, t)

\* faulty variant of AgeKeepSet: the calendar-bucket selection in its place
AgeKeepSetCalendar(list, cfg, t) == KeepSet(Reverse(list), cfg)

\* keep_map as the variant builds it from the listing (oldest first), the policy
\* and the time of the evaluation: the newest snapshot, then the loop
AgeKeepSet(list, cfg, t) ==
    IF Len(list) = 0 THEN {}
    ELSE AgeLoop(list, Len(list) - 1, list[Len(list)], {list[Len(list)].name}, cfg, t)

\* ------------------------------------------------------------------ runBackup helpers
\* the dry-run scan of the argument list
hasDryRun(a) == \E i \in 1..Len(a) : a[i] = "--dry-run" \/ a[i] = "-n"

\* faulty variant of BuildArgs: the dry-run toggle is never appended
BuildArgsNoToggle(latest, cfg, dry) ==
    LET base == <<"-a", "-v", "-h", "--delete", "--stats", "--inplace">>
        link == IF latest # NoName THEN <<"--link-dest=">> ELSE <<>>
        excl == <<"--exclude=*.tmp">>
    IN  base \o link \o excl \o cfg.extra \o <<"/home">> \o <<".unfinished">>

\* the argument list of the subprocess
BuildArgs(latest, cfg, dry) ==
    LET base == <<"-a", "-v", "-h", "--delete", "--stats", "--inplace">>
        link == IF latest # NoName THEN <<"--link-dest=">> ELSE <<>>
        excl == <<"--exclude=*.tmp">>
        a1 == base \o link \o excl \o cfg.extra
        a2 == IF dry /\ ~hasDryRun(a1) THEN Append(a1, "--dry-run") ELSE a1
    IN  a2 \o <<"/home">> \o <<".unfinished">>

\* faulty variant of RunAccepted: the flag alone is enough to carry on
RunAcceptedFlagAlone(c, ignoreVanished) ==
    IF c.state = "exited" /\ c.code = 0 THEN TRUE
    ELSE IF c.state = "exited"
         THEN c.code = 24 \/ ignoreVanished
         ELSE FALSE

\* faulty variant of RunAccepted: exit 24 is accepted whatever the flag
RunAcceptedAny24(c, ignoreVanished) ==
    IF c.state = "exited" /\ c.code = 0 THEN TRUE
    ELSE IF c.state = "exited"
         THEN c.code = 24
         ELSE FALSE

\* the branching on the result of cmd.Run(): TRUE when runBackup carries on
RunAccepted(c, ignoreVanished) ==
    IF c.state = "exited" /\ c.code = 0 THEN TRUE
    ELSE IF c.state = "exited"
         THEN c.code = 24 /\ ignoreVanished
         ELSE FALSE

\* faulty variant of MainAfterBackup: the error of runBackup is ignored
MainAfterBackupAlways(err) == "purge"

\* main: where the process goes after runBackup returned err
MainAfterBackup(err) == IF err # "nil" THEN "idle" ELSE "purge"

\* faulty variant of RemoveAll: the directory is left as it is
RemoveAllKeeps(dir) == dir

\* os.RemoveAll(unfinishedDir) when it succeeds: the path no longer exists
RemoveAll(dir) == Absent

\* os.MkdirAll(unfinishedDir): creates the directory, leaves an existing one alone
MkdirAll(dir, t) == IF dir.exists THEN dir ELSE FreshDir(t)

\* first step of runBackup after the names are computed
FirstStep(dry) == IF dry THEN "getLatest" ELSE "removeAll"

\* faulty variant of AfterFailedRun: the failed staging directory is cleaned up
AfterFailedRunCleans(dir) == Absent

\* the staging directory after runBackup returned on a failed transfer
AfterFailedRun(dir) == dir

\* faulty variant of RemoveEntry: the directory stays where it is
RemoveEntryKeeps(dirs, name) == dirs

\* os.RemoveAll(dest/name) when it succeeds, and what os.Rename does to an empty
\* directory in its way: no entry of that name is left
RemoveEntry(dirs, name) == { d \in dirs : d.name # name }

\* faulty variant of TargetOccupied: the rename replaces whatever carries the name
TargetOccupiedNever(dirs, name) == FALSE

\* os.Rename(unfinishedDir, finalDest) fails when finalDest is a directory that
\* is not empty; an empty one is replaced
TargetOccupied(dirs, name) ==
    \E d \in dirs : d.name = name /\ (d.log \/ d.writers # {})

\* ------------------------------------------------------------------ main, runBackup
\* runBackup returns err to main, which exits fatally unless err is nil
BackupReturn(err) ==
    /\ backupErr' = err
    /\ pc' = MainAfterBackup(err)
    /\ exit' = IF MainAfterBackup(err) = "idle" THEN "1" ELSE exit

\* a new invocation of the program; the clock has moved on since the last one
Start ==
    /\ pc = "idle"
    /\ run < MaxRuns
    /\ run' = run + 1
    /\ \E step \in ClockSteps : now' = now + step
    /\ dryRun' \in BOOLEAN
    /\ pc' = "readConfig"
    /\ snapshotName' = NoName /\ latestSnapshot' = NoName /\ args' = <<>> /\ cmd' = NoCmd
    /\ readDirErr' = "none"
    /\ backupErr' = "pending" /\ purgeErr' = "pending" /\ exit' = "none"
    /\ snapshots' = <<>> /\ to_keep' = {} /\ idx' = 0 /\ reported' = {} /\ failed' = {}
    /\ snaps0' = snaps /\ stale0' = unfinished
    /\ prevPass' = IF purgeErr = "nil" THEN [snapshots |-> snapshots, to_keep |-> to_keep]
                   ELSE NoPass
    /\ UNCHANGED << config, destExists, fsVars, firstPurge >>

\* readConfig fails: log.Fatal before runBackup is called
ReadConfigFail ==
    /\ pc = "readConfig"
    /\ pc' = "idle" /\ exit' = "1"
    /\ UNCHANGED << now, run, destExists, readDirErr, dryRun, config, fsVars, backupLocals,
                    backupErr, purgeErr, purgeLocals, snaps0, stale0, firstPurge,
                    prevPass >>

\* readConfig succeeds; runBackup is entered and computes its names
ReadConfigOk ==
    /\ pc = "readConfig"
    /\ snapshotName' = SnapshotName(config.prefix, now)
    /\ pc' = FirstStep(dryRun)
    /\ UNCHANGED << now, run, destExists, readDirErr, dryRun, config, fsVars,
                    latestSnapshot, args, cmd, backupErr, purgeErr, exit, purgeLocals,
                    snaps0, stale0, firstPurge, prevPass >>

\* os.RemoveAll(unfinishedDir)
RemoveUnfinished ==
    /\ pc = "removeAll"
    /\ \E ok \in BOOLEAN :
         IF ok
         THEN /\ unfinished' = RemoveAll(unfinished)
              /\ pc' = "mkdirAll"
              /\ UNCHANGED << backupErr, exit >>
         ELSE /\ BackupReturn("remove")
              /\ UNCHANGED unfinished
    /\ UNCHANGED << now, run, destExists, readDirErr, dryRun, config, snaps, backupLocals,
                    purgeErr, purgeLocals, snaps0, stale0, firstPurge, prevPass >>

\* os.MkdirAll(unfinishedDir, 0755)
MkdirUnfinished ==
    /\ pc = "mkdirAll"
    /\ \E ok \in BOOLEAN :
         IF ok
         THEN /\ unfinished' = MkdirAll(unfinished, now)
              /\ destExists' = TRUE
              /\ pc' = "getLatest"
              /\ UNCHANGED << backupErr, exit >>
         ELSE /\ BackupReturn("mkdir")
              /\ UNCHANGED << unfinished, destExists >>
    /\ UNCHANGED << now, run, readDirErr, dryRun, config, snaps, backupLocals, purgeErr,
                    purgeLocals, snaps0, stale0, firstPurge, prevPass >>

\* getLatestSnapshot fails to list the destination
GetLatestFail ==
    /\ pc = "getLatest"
    /\ readDirErr' = "other"
    /\ BackupReturn("latest")
    /\ UNCHANGED << now, run, destExists, dryRun, config, fsVars, backupLocals, purgeErr,
                    purgeLocals, snaps0, stale0, firstPurge, prevPass >>

\* getLatestSnapshot succeeds; the argument list and the command are built
GetLatest ==
    /\ pc = "getLatest"
    /\ readDirErr' = ReadDirErr(destExists)
    /\ IF getSnapshotsErr(ReadDirErr(destExists)) # "nil"
       THEN /\ BackupReturn("latest")
            /\ UNCHANGED << latestSnapshot, args >>
       ELSE /\ \E list \in DestListing(destExists, snaps, unfinished) :
                 /\ latestSnapshot' = getLatestSnapshot(list)
                 /\ args' = BuildArgs(getLatestSnapshot(list), config, dryRun)
            /\ pc' = IF dryRun THEN "run" ELSE "createLog"
            /\ UNCHANGED << backupErr, exit >>
    /\ UNCHANGED << now, run, destExists, dryRun, config, fsVars, snapshotName, cmd,
                    purgeErr, purgeLocals, snaps0, stale0, firstPurge, prevPass >>

\* os.Create(unfinishedDir/rsync.log)
CreateLog ==
    /\ pc = "createLog"
    /\ \E ok \in BOOLEAN :
         IF ok /\ unfinished.exists
         THEN /\ unfinished' = [unfinished EXCEPT !.log = TRUE, !.mtime = now]
              /\ pc' = "run"
              /\ UNCHANGED << backupErr, exit >>
         ELSE /\ BackupReturn("log")
              /\ UNCHANGED unfinished
    /\ UNCHANGED << now, run, destExists, readDirErr, dryRun, config, snaps, backupLocals,
                    purgeErr, purgeLocals, snaps0, stale0, firstPurge, prevPass >>

\* cmd.Run(): the subprocess starts
RunStart ==
    /\ pc = "run"
    /\ cmd' = [state |-> "running", code |-> -1]
    /\ pc' = "rsync"
    /\ UNCHANGED << now, run, destExists, readDirErr, dryRun, config, fsVars, snapshotName,
                    latestSnapshot, args, backupErr, purgeErr, exit, purgeLocals, snaps0,
                    stale0, firstPurge, prevPass >>

\* cmd.Run(): the subprocess cannot be started (not an ExitError)
RunStartFail ==
    /\ pc = "run"
    /\ cmd' = [state |-> "failed", code |-> -1]
    /\ pc' = "evalRun"
    /\ UNCHANGED << now, run, destExists, readDirErr, dryRun, config, fsVars, snapshotName,
                    latestSnapshot, args, backupErr, purgeErr, exit, purgeLocals, snaps0,
                    stale0, firstPurge, prevPass >>

\* the subprocess copies into its destination directory, which it creates when
\* missing; under a dry-run toggle it writes nothing
RsyncWrite ==
    /\ pc = "rsync"
    /\ ~hasDryRun(args)
    /\ run \notin unfinished.writers
    /\ unfinished' = [ (IF unfinished.exists THEN unfinished ELSE FreshDir(now))
                         EXCEPT !.writers = @ \cup {run}, !.mtime = now, !.code = -1 ]
    /\ UNCHANGED << now, run, destExists, readDirErr, pc, dryRun, config, snaps,
                    backupLocals, backupErr, purgeErr, exit, purgeLocals, snaps0, stale0,
                    firstPurge, prevPass >>

\* the subprocess exits; code of the staging directory records with which status
\* the copy into it ended
RsyncExit ==
    /\ pc = "rsync"
    /\ \E code \in ExitCodes :
         /\ cmd' = [state |-> "exited", code |-> code]
         /\ unfinished' = IF unfinished.exists /\ ~hasDryRun(args)
                          THEN [unfinished EXCEPT !.code = code]
                          ELSE unfinished
    /\ pc' = "evalRun"
    /\ UNCHANGED << now, run, destExists, readDirErr, dryRun, config, snaps, snapshotName,
                    latestSnapshot, args, backupErr, purgeErr, exit, purgeLocals, snaps0,
                    stale0, firstPurge, prevPass >>

\* the error branch after cmd.Run(): "rsync command failed"
RunRejected ==
    /\ pc = "evalRun"
    /\ ~RunAccepted(cmd, config.ignoreVanished)
    /\ BackupReturn("rsync")
    /\ unfinished' = AfterFailedRun(unfinished)
    /\ UNCHANGED << now, run, destExists, readDirErr, dryRun, config, snaps, backupLocals,
                    purgeErr, purgeLocals, snaps0, stale0, firstPurge, prevPass >>

\* cmd.Run() accepted in a dry run: "[Dry Run] Would rename", return nil
RunAcceptedDry ==
    /\ pc = "evalRun"
    /\ RunAccepted(cmd, config.ignoreVanished)
    /\ dryRun
    /\ BackupReturn("nil")
    /\ UNCHANGED << now, run, destExists, readDirErr, dryRun, config, fsVars, backupLocals,
                    purgeErr, purgeLocals, snaps0, stale0, firstPurge, prevPass >>

\* cmd.Run() accepted in a real run: os.Rename(unfinishedDir, finalDest)
Rename ==
    /\ pc = "evalRun"
    /\ RunAccepted(cmd, config.ignoreVanished)
    /\ ~dryRun
    /\ \E ok \in BOOLEAN :
         IF ok /\ unfinished.exists /\ ~TargetOccupied(snaps, snapshotName)
         THEN /\ snaps' = RemoveEntry(snaps, snapshotName)
                            \cup { [name |-> snapshotName, mtime |-> unfinished.mtime,
                                    log |-> unfinished.log,
                                    writers |-> unfinished.writers,
                                    code |-> unfinished.code, exit |-> cmd.code,
                                    by |-> run] }
              /\ unfinished' = Absent
              /\ BackupReturn("nil")
              /\ firstPurge' = NoPurge
         ELSE /\ BackupReturn("rename")
              /\ UNCHANGED << fsVars, firstPurge >>
    /\ UNCHANGED << now, run, destExists, readDirErr, dryRun, config, backupLocals,
                    purgeErr, purgeLocals, snaps0, stale0, prevPass >>

\* ------------------------------------------------------------------ purgeBackups
\* faulty variant of AfterRemoveFail: the loop is left at the first failed deletion
AfterRemoveFailAborts(i, n) == n + 1

\* position of the summary loop after a deletion failed: the next snapshot
AfterRemoveFail(i, n) == i + 1

\* getSnapshots fails in purgeBackups: the error goes to main, log.Fatal
PurgeListFail ==
    /\ pc = "purge"
    /\ readDirErr' = "other"
    /\ purgeErr' = "list" /\ pc' = "idle" /\ exit' = "1"
    /\ UNCHANGED << now, run, destExists, dryRun, config, fsVars, backupLocals, backupErr,
                    purgeLocals, snaps0, stale0, firstPurge, prevPass >>

\* the listing is read and reversed, and the three tiers fill to_keep
PurgeList ==
    /\ pc = "purge"
    /\ readDirErr' = ReadDirErr(destExists)
    /\ IF getSnapshotsErr(ReadDirErr(destExists)) # "nil"
       THEN /\ purgeErr' = "list" /\ pc' = "idle" /\ exit' = "1"
            /\ UNCHANGED << snapshots, to_keep, idx, firstPurge >>
       ELSE \E list \in DestListing(destExists, snaps, unfinished) :
              /\ snapshots' = Reverse(list)
              /\ IF Len(list) = 0
                 THEN /\ purgeErr' = "nil" /\ pc' = "idle" /\ exit' = "0"
                      /\ UNCHANGED << to_keep, idx, firstPurge >>
                 ELSE /\ to_keep' = KeepSet(Reverse(list), config)
                      /\ idx' = 1
                      /\ pc' = "purgeLoop"
                      /\ firstPurge' =
                           IF firstPurge.valid THEN firstPurge
                           ELSE [valid |-> TRUE,
                                 listing |-> { list[i].name : i \in 1..Len(list) },
                                 keep |-> KeepSet(Reverse(list), config)]
                      /\ UNCHANGED << purgeErr, exit >>
    /\ UNCHANGED << now, run, destExists, dryRun, config, fsVars, backupLocals, backupErr,
                    reported, failed, snaps0, stale0, prevPass >>

\* the summary loop meets a snapshot of to_keep
PurgeKeep ==
    /\ pc = "purgeLoop" /\ idx <= Len(snapshots)
    /\ snapshots[idx].name \in to_keep
    /\ idx' = idx + 1
    /\ UNCHANGED << now, run, destExists, readDirErr, pc, dryRun, config, fsVars,
                    backupLocals, backupErr, purgeErr, exit, snapshots, to_keep, reported,
                    failed, snaps0, stale0, firstPurge, prevPass >>

\* faulty variant of PurgeReport: the candidate is reported and deleted all the same
PurgeReportDeletes ==
    /\ pc = "purgeLoop" /\ idx <= Len(snapshots)
    /\ snapshots[idx].name \notin to_keep
    /\ dryRun
    /\ reported' = reported \cup {snapshots[idx].name}
    /\ snaps' = RemoveEntry(snaps, snapshots[idx].name)
    /\ idx' = idx + 1
    /\ UNCHANGED << now, run, destExists, readDirErr, pc, dryRun, config, unfinished,
                    backupLocals, backupErr, purgeErr, exit, snapshots, to_keep, failed,
                    snaps0, stale0, firstPurge, prevPass >>

\* the summary loop meets a deletion candidate in a dry run
PurgeReport ==
    /\ pc = "purgeLoop" /\ idx <= Len(snapshots)
    /\ snapshots[idx].name \notin to_keep
    /\ dryRun
    /\ reported' = reported \cup {snapshots[idx].name}
    /\ idx' = idx + 1
    /\ UNCHANGED << now, run, destExists, readDirErr, pc, dryRun, config, fsVars,
                    backupLocals, backupErr, purgeErr, exit, snapshots, to_keep, failed,
                    snaps0, stale0, firstPurge, prevPass >>

\* the summary loop deletes a candidate: os.RemoveAll succeeds
PurgeRemove ==
    /\ pc = "purgeLoop" /\ idx <= Len(snapshots)
    /\ snapshots[idx].name \notin to_keep
    /\ ~dryRun
    /\ snaps' = RemoveEntry(snaps, snapshots[idx].name)
    /\ unfinished' = IF snapshots[idx].name = UnfinishedName THEN RemoveAll(unfinished)
                      ELSE unfinished
    /\ idx' = idx + 1
    /\ UNCHANGED << now, run, destExists, readDirErr, pc, dryRun, config, backupLocals,
                    backupErr, purgeErr, exit, snapshots, to_keep, reported, failed, snaps0,
                    stale0, firstPurge, prevPass >>

\* os.RemoveAll fails for a candidate: logged, the loop goes on
PurgeRemoveFail ==
    /\ pc = "purgeLoop" /\ idx <= Len(snapshots)
    /\ snapshots[idx].name \notin to_keep
    /\ ~dryRun
    /\ failed' = failed \cup {snapshots[idx].name}
    /\ idx' = AfterRemoveFail(idx, Len(snapshots))
    /\ UNCHANGED << now, run, destExists, readDirErr, pc, dryRun, config, fsVars,
                    backupLocals, backupErr, purgeErr, exit, snapshots, to_keep, reported,
                    snaps0, stale0, firstPurge, prevPass >>

\* end of the loop: purgeBackups returns nil and main ends
PurgeReturn ==
    /\ pc = "purgeLoop" /\ idx > Len(snapshots)
    /\ purgeErr' = "nil" /\ pc' = "idle" /\ exit' = "0"
    /\ UNCHANGED << now, run, destExists, readDirErr, dryRun, config, fsVars, backupLocals,
                    backupErr, purgeLocals, snaps0, stale0, firstPurge, prevPass >>

\* the variant: the listing is read, not reversed, and to_keep is filled by age
AgePurgeList ==
    /\ pc = "purge"
    /\ readDirErr' = ReadDirErr(destExists)
    /\ IF getSnapshotsErr(ReadDirErr(destExists)) # "nil"
       THEN /\ purgeErr' = "list" /\ pc' = "idle" /\ exit' = "1"
            /\ UNCHANGED << snapshots, to_keep, idx >>
       ELSE \E list \in DestListing(destExists, snaps, unfinished) :
              /\ snapshots' = list
              /\ IF Len(list) = 0
                 THEN /\ purgeErr' = "nil" /\ pc' = "idle" /\ exit' = "0"
                      /\ UNCHANGED << to_keep, idx >>
                 ELSE /\ to_keep' = AgeKeepSet(list, config, now)
                      /\ idx' = 1
                      /\ pc' = "purgeLoop"
                      /\ UNCHANGED << purgeErr, exit >>
    /\ UNCHANGED << now, run, destExists, dryRun, config, fsVars, backupLocals, backupErr,
                    reported, failed, snaps0, stale0, firstPurge, prevPass >>

\* the process is killed (or the host goes down) between two steps; what it held
\* in memory is gone, the destination stays as it is
Crash ==
    /\ pc # "idle"
    /\ pc' = "idle" /\ exit' = "killed"
    /\ snapshotName' = NoName /\ latestSnapshot' = NoName /\ args' = <<>> /\ cmd' = NoCmd
    /\ readDirErr' = "none"
    /\ backupErr' = "pending" /\ purgeErr' = "pending"
    /\ snapshots' = <<>> /\ to_keep' = {} /\ idx' = 0 /\ reported' = {} /\ failed' = {}
    /\ UNCHANGED << now, run, destExists, dryRun, config, fsVars, snaps0, stale0,
                    firstPurge, prevPass >>

\* ------------------------------------------------------------------ specifications
Init ==
    /\ now = 0 /\ run = 0 /\ pc = "idle" /\ dryRun = FALSE
    /\ config \in { c \in Configs : <<c.daily, c.weekly, c.monthly>> \in Policies }
    /\ destExists \in BOOLEAN /\ snaps = {} /\ unfinished = Absent
    /\ snapshotName = NoName /\ latestSnapshot = NoName /\ args = <<>> /\ cmd = NoCmd
    /\ readDirErr = "none"
    /\ backupErr = "pending" /\ purgeErr = "pending" /\ exit = "none"
    /\ snapshots = <<>> /\ to_keep = {} /\ idx = 0 /\ reported = {} /\ failed = {}
    /\ snaps0 = {} /\ stale0 = Absent /\ firstPurge = NoPurge /\ prevPass = NoPass

Next ==
    \/ Start \/ ReadConfigFail \/ ReadConfigOk
    \/ RemoveUnfinished \/ MkdirUnfinished \/ GetLatestFail \/ GetLatest \/ CreateLog
    \/ RunStart \/ RunStartFail \/ RsyncWrite \/ RsyncExit
    \/ RunRejected \/ RunAcceptedDry \/ Rename
    \/ PurgeListFail \/ PurgeList \/ PurgeKeep \/ PurgeReport \/ PurgeRemove
    \/ PurgeRemoveFail \/ PurgeReturn \/ Crash

Spec == Init /\ [][Next]_vars

\* ------------------------------------------------------------------ purge passes alone
\* Days on which the drawn snapshots were last modified: Mon 2024-01-01,
\* Mon 01-08 (next week, same month), Mon 2024-12-30 and Wed 2025-01-01 (one ISO
\* week, 2025-W01, in two months of two years)
SampleDays == {0, 7, 364, 366}

\* the start of each sample day, and the last tick of Mon 01-08 (two snapshots
\* of one day)
SampleTimes == { d * TicksPerDay : d \in SampleDays } \cup { 8 * TicksPerDay - 1 }

\* a published snapshot directory named s_<i>, last modified at t
Dir(i, t) == [name |-> SnapshotName(<<"s">>, i), mtime |-> t, log |-> TRUE,
              writers |-> {}, code |-> 0, exit |-> 0, by |-> 0]

\* destinations holding up to MaxSnaps snapshots (names in order of time); at most
\* one pair of them carries the same timestamp
Listings ==
    UNION { { { Dir(i, f[i]) : i \in 1..k } :
              f \in { g \in [1..k -> SampleTimes] :
                        /\ \A i \in 1..k : \A j \in 1..k : i < j => g[i] <= g[j]
                        /\ Cardinality({ g[i] : i \in 1..k }) >= k - 1 } } :
            k \in 0..MaxSnaps }

\* the purge phase of a following invocation whose publish left the listing as it is
PurgeAgain ==
    /\ pc = "idle"
    /\ dryRun' \in BOOLEAN
    /\ pc' = "purge"
    /\ readDirErr' = "none"
    /\ purgeErr' = "pending" /\ exit' = "none"
    /\ snapshots' = <<>> /\ to_keep' = {} /\ idx' = 0 /\ reported' = {} /\ failed' = {}
    /\ UNCHANGED << now, run, destExists, config, fsVars, backupLocals, backupErr, snaps0,
                    stale0, firstPurge, prevPass >>

InitPurgeCommon ==
    /\ run = 1 /\ pc = "purge"
    /\ unfinished = Absent
    /\ snapshotName = NoName /\ latestSnapshot = NoName /\ args = <<>> /\ cmd = NoCmd
    /\ readDirErr = "none"
    /\ backupErr = "nil" /\ purgeErr = "pending" /\ exit = "none"
    /\ snapshots = <<>> /\ to_keep = {} /\ idx = 0 /\ reported = {} /\ failed = {}
    /\ snaps0 = snaps /\ stale0 = Absent /\ firstPurge = NoPurge /\ prevPass = NoPass

InitPurge ==
    /\ now = 367 * TicksPerDay
    /\ dryRun \in BOOLEAN
    /\ config \in { c \in Configs : /\ c.ignoreVanished = FALSE
                                    /\ c.prefix = <<"s">>
                                    /\ c.extra = <<>> }
    /\ destExists \in BOOLEAN
    /\ snaps \in (IF destExists THEN Listings ELSE { {} })
    /\ InitPurgeCommon

NextPurge ==
    \/ PurgeAgain \/ PurgeListFail \/ PurgeList \/ PurgeKeep \/ PurgeReport
    \/ PurgeRemove \/ PurgeRemoveFail \/ PurgeReturn \/ Crash

SpecPurge == InitPurge /\ [][NextPurge]_vars

\* ------------------------------------------------------------------ publish: claims
\* the subprocess result that lets a publish go on: exit 0, or exit 24 under the flag
Tolerated == cmd.state = "exited" /\ (cmd.code = 0 \/ (cmd.code = 24 /\ config.ignoreVanished))

\* positions of the process inside runBackup
BackupPcs == {"removeAll", "mkdirAll", "getLatest", "createLog", "run", "rsync", "evalRun"}

\* C1: a directory carries a final snapshot name only after the subprocess ended
\* with exit 0 or tolerated exit 24, and what the subprocess wrote into it was
\* complete; the name appears in the one step that makes .unfinished disappear.
C1_PublishedComplete ==
    /\ [](\A d \in snaps : d.by # 0 =>
            /\ d.exit = 0 \/ (d.exit = 24 /\ config.ignoreVanished)
            /\ d.writers # {} => d.code = d.exit)
    /\ [][\A d \in snaps' \ snaps :
            /\ ~dryRun /\ Tolerated
            /\ d.name = snapshotName
            /\ unfinished.exists /\ ~unfinished'.exists
            /\ snaps' = snaps \cup {d}]_vars

\* C1 witness: a snapshot was published after the tolerated exit 24, and a later
\* invocation was killed while its subprocess was writing
C1_Witness ==
    /\ \E d \in snaps : d.by # 0 /\ d.exit = 24 /\ d.writers # {}
    /\ exit = "killed" /\ unfinished.exists /\ unfinished.writers # {}

\* C2: in a real run the subprocess is invoked on a staging directory that holds
\* nothing of an earlier attempt, and a published snapshot holds only what the
\* publishing run wrote.
C2_StaleDiscarded ==
    /\ (~dryRun /\ pc = "createLog") => unfinished = FreshDir(now)
    /\ (~dryRun /\ pc \in {"run", "rsync", "evalRun"}) =>
            unfinished.exists /\ unfinished.writers \subseteq {run}
    /\ \A d \in snaps : d.by # 0 => d.writers \subseteq {d.by}

\* C2 witness: an attempt left a written staging directory behind and the run
\* after it published a snapshot
C2_Witness ==
    /\ stale0.exists /\ stale0.writers # {}
    /\ \E d \in snaps : d.by = run /\ d.writers = {run}

\* C3 as stated: runBackup returns nil exactly when the subprocess result is
\* exit 0 or tolerated exit 24.
C3_SuccessIffTolerated ==
    backupErr # "pending" => (backupErr = "nil" <=> Tolerated)

\* C3 amended: runBackup returns nil only on exit 0 or tolerated exit 24; every
\* other result of the subprocess makes it return the rsync error, whatever the
\* flag; on a tolerated result it returns nil unless the rename of a real run fails.
C3_SuccessOnlyIfTolerated ==
    backupErr # "pending" =>
        /\ backupErr = "nil" => Tolerated
        /\ (cmd.state # "none" /\ ~Tolerated) => backupErr = "rsync"
        /\ (Tolerated /\ backupErr # "nil") => (backupErr = "rename" /\ ~dryRun)

\* C3 witness: exit 24 was tolerated and the rename failed
C3_Witness ==
    backupErr = "rename" /\ cmd.code = 24 /\ config.ignoreVanished

\* C4: after a real run whose transfer failed, the staging directory exists, the
\* error went to the caller (which exits 1) and the published directories are those
\* of the start.
C4_FailureLeavesStaging ==
    (backupErr = "rsync" /\ ~dryRun) =>
        /\ unfinished.exists
        /\ snaps = snaps0
        /\ exit = "1" /\ pc = "idle"

\* C4 witness: exit 24 without the flag after the subprocess had written
C4_Witness ==
    /\ backupErr = "rsync" /\ ~dryRun
    /\ cmd.code = 24 /\ ~config.ignoreVanished
    /\ unfinished.writers = {run} /\ snaps # {}

\* C5: no step of a dry-run publish changes the destination; the subprocess is
\* invoked with a dry-run toggle among its arguments, and runBackup does not return
\* without invoking it unless listing the destination failed.
C5_DryRunFrame ==
    /\ [][(dryRun /\ pc \in BackupPcs \cup {"readConfig"}) => UNCHANGED fsVars]_vars
    /\ []((dryRun /\ pc \in {"run", "rsync", "evalRun"}) => hasDryRun(args))
    /\ []((dryRun /\ backupErr # "pending") =>
            /\ backupErr \in {"nil", "rsync", "latest"}
            /\ backupErr # "latest" => cmd.state # "none")

\* C5 witness: a dry run whose subprocess failed, with a stale staging directory
\* of an earlier run still in place
C5_Witness ==
    /\ dryRun /\ backupErr = "rsync" /\ cmd.code = 1
    /\ unfinished.exists /\ unfinished.writers # {} /\ unfinished = stale0

\* C6: the purge is entered only after runBackup returned nil, runBackup only
\* after the configuration was read; a configuration error leaves the destination
\* as it was, and after an error of runBackup the purge has not run.
C6_PhaseOrder ==
    /\ pc \in {"purge", "purgeLoop"} => backupErr = "nil"
    /\ purgeErr # "pending" => backupErr = "nil"
    /\ pc = "readConfig" => (snaps = snaps0 /\ unfinished = stale0)
    /\ (exit = "1" /\ backupErr = "pending") => (snaps = snaps0 /\ unfinished = stale0)
    /\ backupErr \notin {"pending", "nil"} =>
            /\ pc = "idle" /\ exit = "1"
            /\ purgeErr = "pending" /\ snapshots = <<>> /\ snaps \subseteq snaps0

\* C6 witness: runBackup failed while the destination held a snapshot the policy
\* would have purged
C6_Witness ==
    /\ backupErr = "rsync" /\ exit = "1"
    /\ Visible(snaps) # {}
    /\ config.daily = 0 /\ config.weekly = 0 /\ config.monthly = 0

\* ------------------------------------------------------------------ scenario A
ScenarioYears == 28     \* evaluation dates cover this many years (one calendar cycle)

\* ages, in days, of the ten snapshots
ScenarioAges == {1, 2, 8, 9, 15, 16, 35, 36, 70, 71}

\* days on which the purge is evaluated; the oldest snapshot is of day 0 or later
EvalDays == 71..(71 + ScenarioYears * 365 + ScenarioYears \div 4 - 1)

\* the ten snapshots, each named after its age, as seen on day today
ScenarioDirs(today) == { Dir(a, (today - a) * TicksPerDay) : a \in ScenarioAges }

InitScenario ==
    /\ \E today \in EvalDays :
         /\ now = today * TicksPerDay
         /\ snaps = ScenarioDirs(today)
    /\ destExists = TRUE
    /\ dryRun = FALSE
    /\ config = [ignoreVanished |-> FALSE, prefix |-> <<"s">>, extra |-> <<>>,
                 daily |-> 2, weekly |-> 2, monthly |-> 1]
    /\ InitPurgeCommon

\* one complete real purge pass in which every deletion succeeds
NextScenario == PurgeList \/ PurgeKeep \/ PurgeRemove \/ PurgeReturn

SpecScenario == InitScenario /\ [][NextScenario]_vars

\* ------------------------------------------------------------------ variant passes
EvalDay == 100      \* the variant is evaluated at the start of Wed 2024-04-10

\* ages, in days, of the snapshots drawn for the variant
SampleAges == {0, 1, 2, 3, 8, 9, 10, 16, 17, 33, 40, 47}

\* their modification times, and a snapshot one tick short of 8 days old
AgeTimes ==
    { (EvalDay - a) * TicksPerDay : a \in SampleAges } \cup { (EvalDay - 8) * TicksPerDay + 1 }

\* destinations holding up to MaxSnaps of these snapshots, each named after its time
AgeListings ==
    { { Dir(t, t) : t \in S } : S \in { T \in SUBSET AgeTimes : Cardinality(T) <= MaxSnaps } }

InitAge ==
    /\ now = EvalDay * TicksPerDay
    /\ dryRun = FALSE
    /\ config \in { c \in Configs : /\ c.ignoreVanished = FALSE
                                    /\ c.prefix = <<"s">>
                                    /\ c.extra = <<>> }
    /\ destExists = TRUE
    /\ snaps \in AgeListings
    /\ InitPurgeCommon

\* one complete real pass of the variant in which every deletion succeeds
NextAge == AgePurgeList \/ PurgeKeep \/ PurgeRemove \/ PurgeReturn

SpecAge == InitAge /\ [][NextAge]_vars

\* ------------------------------------------------------------------ purge: claims
\* names of a listing
NamesOf(list) == { list[i].name : i \in 1..Len(list) }

\* position i of the listing holds the newest snapshot of its bucket under key
IsNewestOf(list, i, key(_)) ==
    LET mine == key(list[i].mtime)
    IN  \A j \in 1..(i - 1) : key(list[j].mtime) # mine

\* the first n positions, in order, of a set of positions
FirstOf(positions, n) ==
    { i \in positions : Cardinality({ j \in positions : j < i }) < n }

\* the tiers of C7 over a listing ordered newest first
TierD(list, cfg) == { list[i].name : i \in { j \in 1..Len(list) : j <= cfg.daily } }

TierW(list, cfg) ==
    LET D == TierD(list, cfg)
        eligible == { i \in 1..Len(list) :
                        /\ list[i].name \notin D
                        /\ IsNewestOf(list, i, week_key) }
    IN  { list[i].name : i \in FirstOf(eligible, cfg.weekly) }

TierM(list, cfg) ==
    LET DW == TierD(list, cfg) \cup TierW(list, cfg)
        eligible == { i \in 1..Len(list) :
                        /\ list[i].name \notin DW
                        /\ IsNewestOf(list, i, month_key) }
    IN  { list[i].name : i \in FirstOf(eligible, cfg.monthly) }

\* C7: the keep set purgeBackups computes is D \cup W \cup M: the first daily
\* snapshots, the first weekly newest-of-their-ISO-week snapshots outside D, and
\* the first monthly newest-of-their-month snapshots outside D and W.
C7_KeepIsUnionOfTiers ==
    pc = "purgeLoop" =>
        to_keep = TierD(snapshots, config) \cup TierW(snapshots, config)
                    \cup TierM(snapshots, config)

\* C7 witness: every tier adds a snapshot, and the weekly tier passed over a week
\* whose newest snapshot the daily tier had kept
C7_Witness ==
    /\ pc = "purgeLoop"
    /\ TierD(snapshots, config) # {}
    /\ TierW(snapshots, config) # {}
    /\ TierM(snapshots, config) # {}
    /\ \E i \in 1..Len(snapshots) :
         /\ snapshots[i].name \notin TierD(snapshots, config)
         /\ week_key(snapshots[i].mtime) = week_key(snapshots[1].mtime)

\* ages of the snapshots left in the destination
AgesLeft == { d.name.stamp : d \in Visible(snaps) }

\* the purge pass has gone through the whole listing
PassComplete == pc = "purgeLoop" /\ idx > Len(snapshots)

AgedTime(a) == now - a * TicksPerDay

\* the days of evaluation on which scenario A comes out as stated
C8_DateCondition ==
    /\ week_key(AgedTime(8)) = week_key(AgedTime(9))
    /\ month_key(AgedTime(8)) = month_key(AgedTime(9))
    /\ month_key(AgedTime(15)) = month_key(AgedTime(16))
    /\ month_key(AgedTime(16)) # month_key(AgedTime(35))

Listed == { d.name : d \in Visible(ReadDir(snaps, unfinished)) }

\* a real purge pass that went through the whole listing, or has returned after
\* doing so
RealPassDone ==
    /\ ~dryRun /\ Len(snapshots) > 0
    /\ PassComplete \/ (pc = "idle" /\ purgeErr = "nil" /\ exit = "0")

\* C11: the keep set holds only snapshots of the listing, and after a real pass in
\* which no deletion failed the destination lists exactly the keep set.
C11_PurgeLeavesKeepSet ==
    /\ pc = "purgeLoop" => to_keep \subseteq NamesOf(snapshots)
    /\ (RealPassDone /\ failed = {}) => Listed = to_keep

\* C11 witness: a real pass without failure has returned, having kept some
\* snapshots and deleted others
C11_Witness ==
    /\ RealPassDone /\ failed = {} /\ pc = "idle"
    /\ to_keep # {} /\ Cardinality(to_keep) < Len(snapshots)
    /\ Listed = to_keep

\* ------------------------------------------------------------------ purge: tiers
\* the tiers have just filled to_keep; the summary loop that follows changes
\* neither to_keep nor the listing it was computed from
KeepComputed == pc = "purgeLoop" /\ idx = 1

\* the calendar week and the calendar month of a timestamp, as numbers that grow
\* with time
WeekNo(t) == LET w == ISOWeek(t) IN w[1] * 100 + w[2]

MonthNo(t) == LET d == Date(t) IN d[1] * 100 + d[2]

\* the bucket numbers of a listing, position by position
BucketsOf(list, bucket(_)) == <<>> \o [i \in 1..Len(list) |-> bucket(list[i].mtime)]

\* the n most recent of a set of bucket numbers
RecentBuckets(buckets, n) == { b \in buckets : Cardinality({ c \in buckets : c > b }) < n }

\* the keep set holds a newest snapshot of bucket b of the listing with buckets k
KeepsNewestOf(list, keep, k, b) ==
    \E i \in 1..Len(list) :
        /\ list[i].name \in keep
        /\ k[i] = b
        /\ \A j \in 1..Len(list) : k[j] = b => list[j].mtime <= list[i].mtime

\* C12: the keep set holds the newest snapshot of each of the weekly most recent
\* calendar weeks that hold a snapshot, and of each of the monthly most recent
\* calendar months that hold one.
C12_RecentBucketsKept ==
    KeepComputed =>
        LET wk == BucketsOf(snapshots, WeekNo)
            mk == BucketsOf(snapshots, MonthNo)
            weeks == { wk[i] : i \in 1..Len(snapshots) }
            months == { mk[i] : i \in 1..Len(snapshots) }
        IN  /\ \A b \in RecentBuckets(weeks, config.weekly) :
                  KeepsNewestOf(snapshots, to_keep, wk, b)
            /\ \A b \in RecentBuckets(months, config.monthly) :
                  KeepsNewestOf(snapshots, to_keep, mk, b)

\* C12 witness: two weeks of two years that carry the same week number are both
\* represented in the keep set, and a snapshot that is not the newest of its week
\* or month is left out
C12_Witness ==
    /\ KeepComputed /\ config.daily = 0 /\ config.weekly = 2 /\ config.monthly = 1
    /\ Len(snapshots) = 3 /\ Cardinality(to_keep) = 2
    /\ \E i \in 1..3 : \E j \in 1..3 :
         /\ snapshots[i].name \in to_keep /\ snapshots[j].name \in to_keep
         /\ ISOWeek(snapshots[i].mtime) = <<2025, 1>>
         /\ ISOWeek(snapshots[j].mtime) = <<2024, 1>>

\* the smaller of two numbers
Min(a, b) == IF a < b THEN a ELSE b

\* calendar days of the snapshots of the listing that carry one of the names
DaysOf(list, names) ==
    { DayOf(list[i].mtime) : i \in { j \in 1..Len(list) : list[j].name \in names } }

\* what the daily loop alone selects
DailyTier == DailyLoop(snapshots, 1, 0, {}, config.daily)

\* C13 as stated: the snapshots the daily tier keeps cover min(daily, number of
\* distinct snapshot days) calendar days.
C13_DailyCoversDays ==
    KeepComputed =>
        Cardinality(DaysOf(snapshots, DailyTier))
            = Min(config.daily, Cardinality(DaysOf(snapshots, NamesOf(snapshots))))

\* C13 amended: the daily tier keeps the daily newest snapshots of the listing
\* (all of them when there are fewer), whatever their days; nothing else is kept
\* when weekly and monthly are 0, and the days covered are at most, not always,
\* min(daily, number of distinct snapshot days).
C13_DailyKeepsNewest ==
    KeepComputed =>
        LET n == Min(config.daily, Len(snapshots))
            newest == { snapshots[i].name : i \in 1..n }
        IN  /\ newest \subseteq to_keep
            /\ DailyTier = newest /\ Cardinality(newest) = n
            /\ \A i \in 1..n : \A j \in (n + 1)..Len(snapshots) :
                  snapshots[j].mtime <= snapshots[i].mtime
            /\ (config.weekly = 0 /\ config.monthly = 0) => to_keep = newest
            /\ Cardinality(DaysOf(snapshots, newest))
                  <= Min(config.daily, Cardinality(DaysOf(snapshots, NamesOf(snapshots))))

\* C13 witness: daily = 2 keeps two snapshots of one day at different times and
\* drops the only snapshot of an earlier day
C13_Witness ==
    /\ KeepComputed /\ Len(snapshots) = 3
    /\ config.daily = 2 /\ config.weekly = 0 /\ config.monthly = 0
    /\ DayOf(snapshots[1].mtime) = DayOf(snapshots[2].mtime)
    /\ snapshots[1].mtime > snapshots[2].mtime
    /\ DayOf(snapshots[3].mtime) < DayOf(snapshots[2].mtime)
    /\ to_keep = {snapshots[1].name, snapshots[2].name}

\* what the weekly loop adds to the daily tier, and the monthly loop to both
WeeklyAdded ==
    LET daily == DailyTier
    IN  WeeklyLoop(snapshots, 1, 0, {}, daily, config.weekly) \ daily

MonthlyAdded == to_keep \ (DailyTier \cup WeeklyAdded)

\* position i holds the most recent snapshot of its bucket (k the buckets of the
\* listing): none of the bucket stands before it and none carries a later timestamp
MostRecentOf(list, k, i) ==
    \A j \in 1..Len(list) :
        (j # i /\ k[j] = k[i]) => (j > i /\ list[j].mtime <= list[i].mtime)

\* some snapshot of the bucket of position i carries a later timestamp
HasNewerOf(list, k, i) ==
    \E j \in 1..Len(list) : k[j] = k[i] /\ list[j].mtime > list[i].mtime

\* C14: what the weekly tier adds is the most recent snapshot of its ISO week, what
\* the monthly tier adds the most recent of its month; a snapshot outside the daily
\* tier that is the newest neither of its week nor of its month is a candidate.
C14_OnlyBucketNewestAdded ==
    KeepComputed =>
        LET wk == BucketsOf(snapshots, WeekNo)
            mk == BucketsOf(snapshots, MonthNo)
            daily == DailyTier
            weekly == WeeklyAdded
            monthly == MonthlyAdded
        IN  \A i \in 1..Len(snapshots) :
                /\ snapshots[i].name \in weekly => MostRecentOf(snapshots, wk, i)
                /\ snapshots[i].name \in monthly => MostRecentOf(snapshots, mk, i)
                /\ ( /\ snapshots[i].name \notin daily
                     /\ HasNewerOf(snapshots, wk, i)
                     /\ HasNewerOf(snapshots, mk, i) ) => snapshots[i].name \notin to_keep

\* C14 witness: the monthly tier has both slots free, yet the second snapshot of a
\* month is left out; the weekly and the monthly tier each add one snapshot
C14_Witness ==
    /\ KeepComputed /\ Len(snapshots) = 3
    /\ config.daily = 0 /\ config.weekly = 1 /\ config.monthly = 2
    /\ WeeklyAdded # {} /\ MonthlyAdded # {}
    /\ \E i \in 1..3 : snapshots[i].name \notin to_keep

\* positions of the bucket representatives: the first snapshot of each bucket in
\* a listing with buckets k
Representatives(k) ==
    { i \in 1..Len(k) : \A j \in 1..(i - 1) : k[j] # k[i] }

\* the representatives whose snapshot is not among the names
NotIn(list, positions, names) == { i \in positions : list[i].name \notin names }

\* C15: a week (month) whose newest snapshot was kept by an earlier tier is marked
\* as seen without using a weekly (monthly) slot: no other snapshot of it is added,
\* and the weekly tier adds min(weekly, week representatives not yet kept)
\* snapshots, the monthly tier min(monthly, month representatives not yet kept).
C15_SlotsOnlyForAdded ==
    KeepComputed =>
        LET weekReps == Representatives(BucketsOf(snapshots, WeekNo))
            monthReps == Representatives(BucketsOf(snapshots, MonthNo))
            daily == DailyTier
            weekly == WeeklyAdded
            monthly == MonthlyAdded
        IN  /\ Cardinality(weekly)
                  = Min(config.weekly, Cardinality(NotIn(snapshots, weekReps, daily)))
            /\ Cardinality(monthly)
                  = Min(config.monthly,
                        Cardinality(NotIn(snapshots, monthReps, daily \cup weekly)))
            /\ weekly \subseteq { snapshots[i].name : i \in weekReps }
            /\ monthly \subseteq { snapshots[i].name : i \in monthReps }
            /\ daily \cap weekly = {} /\ daily \cap monthly = {}

\* C15 witness: the newest snapshot lies in the daily window and is the newest of
\* its week; the next one of that week is left out and the one weekly slot goes to
\* the week before
C15_Witness ==
    /\ KeepComputed /\ Len(snapshots) = 3
    /\ config.daily = 1 /\ config.weekly = 1 /\ config.monthly = 0
    /\ WeekNo(snapshots[1].mtime) = WeekNo(snapshots[2].mtime)
    /\ WeekNo(snapshots[3].mtime) # WeekNo(snapshots[1].mtime)
    /\ to_keep = {snapshots[1].name, snapshots[3].name}

\* ------------------------------------------------------------------ purge: edge cases
\* the policy daily = 0, weekly = 0, monthly = 0
KeepNothing == config.daily = 0 /\ config.weekly = 0 /\ config.monthly = 0

\* C16: under the policy 0/0/0 the keep set of a non-empty listing is empty, and a
\* real pass deletes every snapshot it has gone past whose deletion did not fail,
\* so that nothing is listed after a pass without failure, the snapshot just
\* published included.
C16_KeepNothingDeletesAll ==
    KeepNothing =>
        /\ pc = "purgeLoop" => (to_keep = {} /\ Len(snapshots) > 0)
        /\ (pc = "purgeLoop" /\ ~dryRun) =>
                \A i \in 1..(idx - 1) :
                    snapshots[i].name \in Listed => snapshots[i].name \in failed
        /\ (RealPassDone /\ failed = {}) => Listed = {}

\* C16 witness: an invocation published a snapshot next to an older one and its own
\* purge deleted both
C16_Witness ==
    /\ KeepNothing /\ RealPassDone /\ failed = {} /\ pc = "idle"
    /\ Len(snapshots) = 2 /\ snapshots[1].name = snapshotName
    /\ Listed = {}

\* C17: purgeBackups on a destination that is missing or lists no snapshot returns
\* nil in its first step and changes nothing, whatever the policy; it returns an
\* error exactly when reading the directory failed otherwise, and then without
\* having listed, reported or tried to delete anything.
C17_EmptyPurgeNoOp ==
    /\ []((pc = "idle" /\ purgeErr # "pending") =>
            /\ (purgeErr = "list") <=> (readDirErr = "other")
            /\ readDirErr = "notExist" => (~destExists /\ purgeErr = "nil" /\ exit = "0")
            /\ purgeErr = "list" =>
                    (exit = "1" /\ snapshots = <<>> /\ reported = {} /\ failed = {}))
    /\ [][pc = "purge" =>
            /\ UNCHANGED << destExists, snaps, unfinished >>
            /\ (~destExists \/ Listed = {}) =>
                    /\ pc' = "idle" /\ snapshots' = <<>> /\ to_keep' = {}
                    /\ (exit' # "killed" /\ readDirErr' # "other") =>
                            (purgeErr' = "nil" /\ exit' = "0")
            /\ readDirErr' = "other" =>
                    (purgeErr' = "list" /\ exit' = "1" /\ pc' = "idle")]_vars

\* C17 witness: the destination does not exist, the policy keeps snapshots in
\* every tier, and the purge has returned nil
C17_Witness ==
    /\ ~destExists /\ readDirErr = "notExist"
    /\ config.daily = MaxKeep /\ config.weekly = 1 /\ config.monthly = 1
    /\ pc = "idle" /\ purgeErr = "nil" /\ exit = "0"

\* C18: a failed deletion is logged and the pass goes on: every candidate the loop
\* has gone past is deleted or logged as failed, a failed one is still listed, and
\* after the whole pass the destination lists the keep set and the failed
\* candidates only; purgeBackups then returns nil.
C18_BestEffortPurge ==
    /\ (pc = "purgeLoop" /\ ~dryRun) =>
            /\ failed \subseteq Listed \ to_keep
            /\ \A i \in 1..Len(snapshots) :
                  (i < idx /\ snapshots[i].name \notin to_keep) =>
                      (snapshots[i].name \in failed \/ snapshots[i].name \notin Listed)
    /\ RealPassDone => Listed = to_keep \cup failed
    /\ (pc = "idle" /\ failed # {}) => (purgeErr = "nil" /\ exit = "0")

\* C18 witness: the purge returned nil after the deletion of one candidate failed
\* and a later candidate was deleted
C18_Witness ==
    /\ pc = "idle" /\ purgeErr = "nil" /\ ~dryRun /\ failed # {}
    /\ \E i \in 1..Len(snapshots) : \E j \in 1..Len(snapshots) :
         /\ i < j
         /\ snapshots[i].name \in failed
         /\ snapshots[j].name \notin to_keep /\ snapshots[j].name \notin Listed

\* ------------------------------------------------------------------ hidden directories
\* names the purge pass holds in its listing, its keep set or its logs
PurgeNames == NamesOf(snapshots) \cup to_keep \cup reported \cup failed

\* C19: .unfinished and every other directory with a leading dot is never the
\* link reference of a publish and never in the listing, the keep set or the logs
\* of a purge; no step of a purge touches the staging directory or removes a dot
\* directory, the staging directory changes only in the publish of a real run.
C19_StagingNeverListed ==
    /\ [](/\ ~HasDotPrefix(latestSnapshot)
          /\ \A n \in PurgeNames : ~HasDotPrefix(n)
          /\ UnfinishedName \notin PurgeNames \cup {latestSnapshot})
    /\ [][(pc \in {"purge", "purgeLoop"}) =>
            /\ unfinished' = unfinished
            /\ \A d \in snaps \ snaps' : ~HasDotPrefix(d.name)]_vars
    /\ [][unfinished' # unfinished => (~dryRun /\ pc \in BackupPcs)]_vars

\* C19 witness: a failed publish left a written staging directory; the dry run
\* after it listed the destination twice, found no reference and no snapshot to
\* purge, and the staging directory is still there
C19_Witness ==
    /\ dryRun /\ pc = "idle" /\ backupErr = "nil" /\ purgeErr = "nil"
    /\ unfinished.exists /\ unfinished.writers # {} /\ unfinished = stale0
    /\ latestSnapshot = NoName /\ snapshots = <<>>

\* ------------------------------------------------------------------ link reference
\* the argument list names a link target
HasLinkDest(a) == \E i \in 1..Len(a) : a[i] = "--link-dest="

\* positions of runBackup at which the argument list has been built and the
\* published directories are still those it was built from
ArgsBuilt == pc \in {"createLog", "run", "rsync", "evalRun"}

\* C20: the link target handed to the subprocess is the published snapshot with
\* the latest timestamp; without a published snapshot no link target is passed,
\* and the publish goes on either way.
C20_LinkDestIsLatest ==
    ArgsBuilt =>
        IF snaps = {}
        THEN latestSnapshot = NoName /\ ~HasLinkDest(args)
        ELSE /\ HasLinkDest(args)
             /\ \E d \in snaps :
                  /\ d.name = latestSnapshot
                  /\ \A e \in snaps : e.mtime <= d.mtime

\* ------------------------------------------------------------------ publish, then purge
\* the purge of a real run whose publish succeeded: runBackup returned nil after
\* the rename
PublishedThisRun == ~dryRun /\ backupErr = "nil"

\* C21: the purge that follows a successful real-run publish lists the snapshot
\* just published, keeps it when daily >= 1, and does not delete it, whatever
\* the configured prefix.
C21_FreshSnapshotKept ==
    PublishedThisRun =>
        /\ (pc = "purgeLoop" \/ purgeErr = "nil") =>
                /\ snapshotName \in NamesOf(snapshots)
                /\ config.daily >= 1 => snapshotName \in to_keep
        /\ config.daily >= 1 => \E d \in snaps : d.name = snapshotName /\ d.by = run

\* a step in which the publish of a real run succeeds: runBackup returns nil
PublishStep == ~dryRun /\ backupErr = "pending" /\ backupErr' = "nil"

\* the publish step adds one directory, named snapshotName, leaves the others as
\* they were, and the listing of the destination grows by that one name
PublishAddsOne ==
    PublishStep =>
        /\ snaps \subseteq snaps'
        /\ \E d \in snaps' \ snaps : d.name = snapshotName /\ snaps' = snaps \cup {d}
        /\ Listed' = Listed \cup {snapshotName}
        /\ Cardinality(Listed') = Cardinality(Listed) + 1

\* a published directory stays as it is in every step, or is the candidate a real
\* purge pass deletes in that step; it never becomes the staging directory
PublishedFrozen ==
    \A d \in snaps :
        \/ d \in snaps'
        \/ /\ pc = "purgeLoop" /\ ~dryRun /\ idx <= Len(snapshots)
           /\ d.name = snapshots[idx].name /\ d.name \notin to_keep
           /\ \A e \in snaps' : e.name # d.name
           /\ unfinished' = unfinished

\* C22: a successful real-run publish adds exactly one snapshot to the listing and
\* leaves the existing ones unchanged; a published snapshot is never modified,
\* renamed or returned to staging, and leaves only through deletion by a purge.
C22_PublishAddsOneSnapshot ==
    /\ [][PublishAddsOne]_vars
    /\ [][PublishedFrozen]_vars

\* ------------------------------------------------------------------ failed rename
\* the published directory that carries the name the staging directory is to get
NameTaken == \E d \in snaps : d.name = snapshotName

\* C23: when the final rename fails, and it does whenever a published snapshot
\* carries the target name already, runBackup returns an error (main exits 1
\* without purging), the staging directory stays as it was and every published
\* snapshot, the one of that name included, is unchanged.
C23_RenameFailureKeepsStaging ==
    /\ [](backupErr = "rename" =>
            /\ pc = "idle" /\ exit = "1" /\ purgeErr = "pending"
            /\ unfinished.exists /\ unfinished.log
            /\ snaps = snaps0)
    /\ [][backupErr' = "rename" =>
            /\ pc = "evalRun" /\ ~dryRun
            /\ unfinished' = unfinished /\ snaps' = snaps]_vars
    /\ [][(pc = "evalRun" /\ ~dryRun /\ Tolerated /\ NameTaken /\ exit' # "killed") =>
            /\ backupErr' = "rename"
            /\ unfinished' = unfinished /\ snaps' = snaps]_vars

\* C23 witness: the second publish of one second, under the same prefix, was
\* copied and accepted, and its rename failed on the snapshot the first had
\* published
C23_Witness ==
    /\ backupErr = "rename" /\ cmd.code = 0
    /\ unfinished.exists /\ unfinished.writers = {run}
    /\ \E d \in snaps : d.name = snapshotName /\ d.by = run - 1 /\ d.writers = {d.by}

\* ------------------------------------------------------------------ dry-run purge
\* the listing carries no timestamp twice
DistinctTimes(list) ==
    \A i \in 1..Len(list) : \A j \in 1..Len(list) : i # j => list[i].mtime # list[j].mtime

\* what the pass in progress removes from the destination when every deletion
\* succeeds
Candidates == NamesOf(snapshots) \ KeepSet(snapshots, config)

\* C24: a dry-run purge changes nothing in the destination and all of its listing
\* stays listed; it reports exactly the candidates of its listing under the
\* policy, the set a real pass over the same listing and policy deletes, also
\* when that real pass is a later one over the same snapshots.
C24_DryRunReportsRealDeletions ==
    /\ [][(dryRun /\ pc \in {"purge", "purgeLoop"}) =>
            UNCHANGED << destExists, snaps, unfinished >>]_vars
    /\ []((dryRun /\ pc = "idle" /\ purgeErr = "nil") =>
            /\ reported = Candidates
            /\ Listed = NamesOf(snapshots))
    /\ []((RealPassDone /\ failed = {}) =>
            /\ reported = {}
            /\ NamesOf(snapshots) \ Listed = Candidates
            /\ (firstPurge.listing = NamesOf(snapshots) /\ DistinctTimes(snapshots)) =>
                    NamesOf(snapshots) \ Listed = firstPurge.listing \ firstPurge.keep)

\* C24 witness: a dry-run pass over three snapshots has returned; it reported some
\* of them, kept others, and all three are still listed
C24_Witness ==
    /\ dryRun /\ pc = "idle" /\ purgeErr = "nil"
    /\ Len(snapshots) = 3 /\ reported # {} /\ to_keep # {}
    /\ reported = NamesOf(snapshots) \ to_keep
    /\ Listed = NamesOf(snapshots)

\* ------------------------------------------------------------------ kept is not sticky
\* a step deletes a snapshot the pass of the invocation before had kept
DeletesKept(d) == d \in snaps /\ d \notin snaps' /\ d.name \in prevPass.to_keep

\* C25: a snapshot a purge pass kept is deleted by the pass of the following
\* invocation only after that invocation published a newer snapshot, which its
\* pass lists; a pass that finds the listing of the pass before computes the keep
\* set of the pass before, at whatever time, and so deletes nothing that was kept.
C25_KeptNotSticky ==
    /\ [][\A d \in snaps : DeletesKept(d) =>
            /\ pc = "purgeLoop" /\ PublishedThisRun
            /\ \E e \in snaps :
                 /\ e.name = snapshotName /\ e.by = run
                 /\ e.mtime > d.mtime
                 /\ e.name \in NamesOf(snapshots)
                 /\ e.name \notin NamesOf(prevPass.snapshots)]_vars
    /\ []((pc = "purgeLoop" /\ snapshots = prevPass.snapshots) =>
            to_keep = prevPass.to_keep)

\* C25 witness: under the policy 1/1/1 the first invocation published and kept a
\* snapshot; the second published a newer one and its pass deleted the first
C25_Witness ==
    /\ pc = "idle" /\ purgeErr = "nil" /\ ~dryRun
    /\ config.daily = 1 /\ config.weekly = 1 /\ config.monthly = 1
    /\ Len(prevPass.snapshots) = 1 /\ Len(snapshots) = 2
    /\ \E x \in prevPass.to_keep :
         /\ x \in NamesOf(snapshots) /\ x \notin to_keep /\ x \notin Listed
         /\ to_keep = {snapshotName} /\ Listed = {snapshotName}

\* ------------------------------------------------------------------ the two variants
\* what the calendar-bucket purgeBackups selects from the listing of a variant pass
CalendarKeep == KeepSet(Reverse(snapshots), config)

\* age in whole days, at the time of the evaluation, of the i-th newest snapshot of
\* a listing held oldest first
AgeOfNewest(i) == ageInDays(snapshots[Len(snapshots) + 1 - i].mtime, now)

\* C26: evaluated at the same time on the same listing with the same policy, the
\* calendar-bucket and the age-threshold selection differ: under 0/0/0 the first
\* keeps nothing and the second keeps the newest snapshot, and under daily >= 2,
\* weekly = 0, monthly = 0 a second newest snapshot older than daily days and less
\* than 30 days older than the newest is kept by the first and dropped by the second.
C26_VariantsDiffer ==
    KeepComputed =>
        LET cal == CalendarKeep
            second == snapshots[Len(snapshots) - 1].name
        IN  /\ KeepNothing => (cal = {} /\ to_keep # {})
            /\ ( /\ config.daily >= 2 /\ config.weekly = 0 /\ config.monthly = 0
                 /\ Len(snapshots) >= 2
                 /\ AgeOfNewest(2) > config.daily
                 /\ AgeOfNewest(2) - AgeOfNewest(1) < 30 ) =>
                    (second \in cal /\ second \notin to_keep)

\* C26 witness: under the policy 2/0/0 each selection keeps a snapshot the other
\* one drops
C26_Witness ==
    /\ KeepComputed /\ Len(snapshots) = 3
    /\ config.daily = 2 /\ config.weekly = 0 /\ config.monthly = 0
    /\ CalendarKeep \ to_keep # {}
    /\ to_keep \ CalendarKeep # {}

\* ------------------------------------------------------------------ bounded history
\* a real purge has returned nil and none of its deletions failed
RealPurgeReturned == ~dryRun /\ pc = "idle" /\ purgeErr = "nil" /\ failed = {}

\* C27: after a completed real-run purge without a failed deletion the destination
\* holds at most daily + weekly + monthly published snapshots.
C27_BoundedHistory ==
    RealPurgeReturned =>
        Cardinality(snaps) <= config.daily + config.weekly + config.monthly

\* ------------------------------------------------------------------ the newest snapshot
\* the names of the listing that carry its latest timestamp
Newest(list) ==
    { list[i].name : i \in { j \in 1..Len(list) :
                               \A k \in 1..Len(list) : list[k].mtime <= list[j].mtime } }

\* C28: unless daily, weekly and monthly are all 0, a snapshot with the latest
\* timestamp of the listing, the one the listing starts with, is in the keep set
\* and is still listed at every point of the pass and after it; under 0/0/0 it is
\* not kept.
C28_NewestKept ==
    (pc = "purgeLoop" \/ (pc = "idle" /\ purgeErr = "nil" /\ Len(snapshots) > 0)) =>
        IF KeepNothing
        THEN Newest(snapshots) \cap to_keep = {}
        ELSE /\ snapshots[1].name \in Newest(snapshots) \cap to_keep
             /\ snapshots[1].name \in Listed

\* C28 witness: under the policy 0/0/1 a real pass over three snapshots has
\* returned and left the newest one alone
C28_Witness ==
    /\ pc = "idle" /\ purgeErr = "nil" /\ ~dryRun /\ failed = {}
    /\ config.daily = 0 /\ config.weekly = 0 /\ config.monthly = 1
    /\ Len(snapshots) = 3
    /\ Listed = {snapshots[1].name} /\ Listed \subseteq Newest(snapshots)

\* ------------------------------------------------------------------ age thresholds
\* age in whole days of the i-th snapshot of a variant pass (listing oldest first)
AgeAt(i) == ageInDays(snapshots[i].mtime, now)

\* the snapshot kept last when the walk from the newest reaches position i: the
\* nearest kept snapshot after it
LastKeptBefore(i) ==
    CHOOSE j \in (i + 1)..Len(snapshots) :
        /\ snapshots[j].name \in to_keep
        /\ \A k \in (i + 1)..(j - 1) : snapshots[k].name \notin to_keep

\* C29: the variant keeps the newest snapshot; an older one aged a days is kept
\* when a <= daily, else exactly when it is at least 7 days older than the last
\* kept one if a <= daily + 7 * weekly, at least 30 days older if a is beyond
\* that; the result is the same for every monthly count.
C29_AgeThresholdRule ==
    KeepComputed =>
        /\ snapshots[Len(snapshots)].name \in to_keep
        /\ to_keep \subseteq NamesOf(snapshots)
        /\ \A i \in 1..(Len(snapshots) - 1) :
              LET a == AgeAt(i)
                  gap == a - AgeAt(LastKeptBefore(i))
              IN  snapshots[i].name \in to_keep <=>
                      \/ a <= config.daily
                      \/ a <= config.daily + 7 * config.weekly /\ gap >= 7
                      \/ a > config.daily + 7 * config.weekly /\ gap >= 30
        /\ \A m \in 0..MaxKeep :
              to_keep = AgeKeepSet(snapshots, [config EXCEPT !.monthly = m], now)

\* C29 witness: under daily = 1, weekly = 1 the snapshots aged 1, 8 and 40 days are
\* all kept, the second by the 7-day and the third by the 30-day spacing, and the
\* monthly count is not 0
C29_Witness ==
    /\ KeepComputed /\ Len(snapshots) = 3
    /\ config.daily = 1 /\ config.weekly = 1 /\ config.monthly = 2
    /\ AgeAt(3) = 1 /\ AgeAt(2) = 8 /\ AgeAt(1) = 40
    /\ to_keep = NamesOf(snapshots)

====
